---- MODULE Spec2Model ----
(***************************************************************************)
(* vob::placed_vector<T, N, A> (src/placed_vector.h): a std::vector whose  *)
(* allocator, allocator_in_place, hands out the N-element buffer embedded  *)
(* in the container while it is free and large enough, and otherwise       *)
(* delegates to the fallback allocator A.                                  *)
(*                                                                         *)
(* The model keeps the memory (the embedded buffers and the fallback's     *)
(* blocks), the place_manager of every instance, the three words of every  *)
(* std::vector (data pointer, size, capacity) and, for the operation that  *)
(* ran last, the calls it made to the allocator.                           *)
(***************************************************************************)
EXTENDS Integers, Sequences, FiniteSets

\* Largest inline capacity N explored (template parameter N, 1..MaxN).
MaxN == 2
\* Elements are appended while size < N + MaxExtra.
MaxExtra == 2
\* Element values are 1..MaxVal.
MaxVal == 2
\* Operations in a run of the two-instance specification.
MaxOps == 5
\* Fallback blocks live at once when the allocator is driven directly.
MaxBlocks == 2

VARIABLES
    N,        \* template parameter N of the instances
    stdlib,   \* the std::vector implementation of the build
    life,     \* per instance: "none" (raw storage), "alive", "dead"
    place,    \* per instance: its managed_place descriptor (m_place)
    vec,      \* per instance: the std::vector base and its allocator's m_place
    mem,      \* address -> slots: the embedded buffers and the live fallback blocks
    live,     \* the fallback allocator's live blocks
    log,      \* the allocator calls made by the last operation
    last,     \* the last operation: its name, instance, source instance and result
    hist,     \* per instance: what has happened to it since its construction
    budget    \* operations left in a run of bounded length (0: not bounded)

vars == <<N, stdlib, life, place, vec, mem, live, log, last, hist, budget>>

Inst == {1, 2}
Val == 1..MaxVal
StdLibs == {"msvc", "libstdcxx"}

\* A slot holding no live element (raw storage or a destroyed element).
Junk == 0

NullPtr == <<"null", 0>>
WildPtr == <<"wild", 0>>
\* &bytes[0] of instance i
InlineAddr(i) == <<"inline", i>>
HeapAddr(k) == <<"heap", k>>

RawSlots(n) == [k \in 1..n |-> Junk]

------------------------------------------------------------------------------
(* The machine state an operation works on: the variables as one record,   *)
(* plus the value returned by the last call (ret), the number of blocks    *)
(* each instance's allocator has handed out and not yet got back (out) and *)
(* the instances whose m_place has been constructed (built).  thrown tells *)
(* that a std::bad_alloc is propagating; fail is the number of requests the *)
(* fallback allocator still serves before it fails one (-1: it never       *)
(* fails); ub is what a read through a null m_place does in this build;    *)
(* steps are the snapshots put_in_place takes after each of its steps.     *)

Machine ==
    [place |-> place, vec |-> vec, mem |-> mem, live |-> live,
     log |-> <<>>, ret |-> NullPtr,
     out |-> [i \in Inst |-> IF vec[i].data = NullPtr THEN 0 ELSE 1],
     built |-> {i \in Inst : life[i] = "alive"},
     thrown |-> FALSE, fail |-> -1, ub |-> "crash", steps |-> <<>>]

\* One call to an allocator_in_place: which instance's allocator, the block,
\* the request size, who served it ("place", "fallback", or "bad" for a
\* release the fallback never allocated), the blocks the allocator had out
\* before the call, whether the descriptor it read was constructed, and
\* whether that descriptor was enabled when the call was made.  by is
\* "bad_alloc" for a request the fallback failed and "nullderef" for a release
\* that stopped at the read through a null m_place.
Event(M, call, i, p, n, by) ==
    [call |-> call, inst |-> i, p |-> p, n |-> n, by |-> by, held |-> M.out[i],
     ready |-> M.vec[i].m_place \in M.built,
     enabled |-> M.vec[i].m_place # 0 /\ M.place[M.vec[i].m_place].is_enabled]

\* place_manager(p_bytes, size), called by managed_place() with (&bytes[0], N)
place_manager(p_bytes, size) ==
    [is_used |-> FALSE, is_enabled |-> TRUE, p_bytes |-> p_bytes, size |-> size]

managed_place(i) == place_manager(InlineAddr(i), N)

\* A std::vector constructed empty with allocator_in_place(alloc, &m_place)
EmptyVector(i) == [data |-> NullPtr, size |-> 0, cap |-> 0, m_place |-> i]

\* m_allocator.allocate(n, hint): a fresh block of n raw slots, or
\* std::bad_alloc when the fallback allocator is exhausted
FallbackAllocate(M, i, n) ==
    IF M.fail = 0
    THEN [M EXCEPT !.thrown = TRUE,
                   !.log = Append(@, Event(M, "allocate", i, NullPtr, n, "bad_alloc"))]
    ELSE LET k == CHOOSE x \in 1..(Cardinality(M.live) + 1) : x \notin M.live
         IN  [M EXCEPT !.live = @ \cup {k},
                       !.mem = [a \in DOMAIN M.mem \cup {HeapAddr(k)} |->
                                   IF a = HeapAddr(k) THEN RawSlots(n) ELSE M.mem[a]],
                       !.ret = HeapAddr(k),
                       !.out[i] = @ + 1,
                       !.fail = IF @ > 0 THEN @ - 1 ELSE @,
                       !.log = Append(@, Event(M, "allocate", i, HeapAddr(k), n, "fallback"))]

\* m_allocator.deallocate(p, n); by = "bad" when p is no live block of the fallback
FallbackDeallocate(M, i, p, n) ==
    IF p[1] = "heap" /\ p[2] \in M.live
    THEN [M EXCEPT !.live = @ \ {p[2]},
                   !.mem = [a \in DOMAIN M.mem \ {p} |-> M.mem[a]],
                   !.out[i] = @ - 1,
                   !.log = Append(@, Event(M, "deallocate", i, p, n, "fallback"))]
    ELSE [M EXCEPT !.out[i] = @ - 1,
                   !.log = Append(@, Event(M, "deallocate", i, p, n, "bad"))]

\* allocate with the size test off by one: a request for exactly N is refused.
allocate_strict(M, i, n) ==
    LET j == M.vec[i].m_place
    IN  IF j # 0 /\ M.place[j].is_enabled /\ ~M.place[j].is_used /\ n < M.place[j].size
        THEN [M EXCEPT !.place[j].is_used = TRUE,
                       !.ret = M.place[j].p_bytes,
                       !.out[i] = @ + 1,
                       !.log = Append(@, Event(M, "allocate", i, M.place[j].p_bytes, n, "place"))]
        ELSE FallbackAllocate(M, i, n)

\* allocate without the test of is_used.
allocate_ignores_used(M, i, n) ==
    LET j == M.vec[i].m_place
    IN  IF j # 0 /\ M.place[j].is_enabled /\ n <= M.place[j].size
        THEN [M EXCEPT !.place[j].is_used = TRUE,
                       !.ret = M.place[j].p_bytes,
                       !.out[i] = @ + 1,
                       !.log = Append(@, Event(M, "allocate", i, M.place[j].p_bytes, n, "place"))]
        ELSE FallbackAllocate(M, i, n)

\* allocate without the test of is_enabled.
allocate_ignores_enabled(M, i, n) ==
    LET j == M.vec[i].m_place
    IN  IF j # 0 /\ ~M.place[j].is_used /\ n <= M.place[j].size
        THEN [M EXCEPT !.place[j].is_used = TRUE,
                       !.ret = M.place[j].p_bytes,
                       !.out[i] = @ + 1,
                       !.log = Append(@, Event(M, "allocate", i, M.place[j].p_bytes, n, "place"))]
        ELSE FallbackAllocate(M, i, n)

\* allocate without the test of the request size.
allocate_ignores_size(M, i, n) ==
    LET j == M.vec[i].m_place
    IN  IF j # 0 /\ M.place[j].is_enabled /\ ~M.place[j].is_used
        THEN [M EXCEPT !.place[j].is_used = TRUE,
                       !.ret = M.place[j].p_bytes,
                       !.out[i] = @ + 1,
                       !.log = Append(@, Event(M, "allocate", i, M.place[j].p_bytes, n, "place"))]
        ELSE FallbackAllocate(M, i, n)

\* allocator_in_place::allocate(n, hint)
allocate(M, i, n) ==
    LET j == M.vec[i].m_place
    IN  IF j # 0 /\ M.place[j].is_enabled /\ ~M.place[j].is_used /\ n <= M.place[j].size
        THEN [M EXCEPT !.place[j].is_used = TRUE,
                       !.ret = M.place[j].p_bytes,
                       !.out[i] = @ + 1,
                       !.log = Append(@, Event(M, "allocate", i, M.place[j].p_bytes, n, "place"))]
        ELSE FallbackAllocate(M, i, n)

\* deallocate that forgets to clear is_used when the inline region comes back.
deallocate_keeps_used(M, i, p, n) ==
    LET j == M.vec[i].m_place
    IN  IF j = 0
        THEN IF M.ub = "delegates"
             THEN FallbackDeallocate(M, i, p, n)
             ELSE [M EXCEPT !.log = Append(@, Event(M, "deallocate", i, p, n, "nullderef"))]
        ELSE IF p = M.place[j].p_bytes
        THEN [M EXCEPT !.out[i] = @ - 1,
                       !.log = Append(@, Event(M, "deallocate", i, p, n, "place"))]
        ELSE FallbackDeallocate(M, i, p, n)

\* deallocate that also disables the descriptor when the inline region comes back.
deallocate_disables(M, i, p, n) ==
    LET j == M.vec[i].m_place
    IN  IF j = 0
        THEN IF M.ub = "delegates"
             THEN FallbackDeallocate(M, i, p, n)
             ELSE [M EXCEPT !.log = Append(@, Event(M, "deallocate", i, p, n, "nullderef"))]
        ELSE IF p = M.place[j].p_bytes
        THEN [M EXCEPT !.place[j].is_used = FALSE,
                       !.place[j].is_enabled = FALSE,
                       !.out[i] = @ - 1,
                       !.log = Append(@, Event(M, "deallocate", i, p, n, "place"))]
        ELSE FallbackDeallocate(M, i, p, n)

\* allocator_in_place::deallocate(p, n).  m_place is read without a null test:
\* with no descriptor bound the read of m_place->p_bytes is undefined; the
\* build either stops there or reads a value other than p and goes on to
\* the fallback.
deallocate(M, i, p, n) ==
    LET j == M.vec[i].m_place
    IN  IF j = 0
        THEN IF M.ub = "delegates"
             THEN FallbackDeallocate(M, i, p, n)
             ELSE [M EXCEPT !.log = Append(@, Event(M, "deallocate", i, p, n, "nullderef"))]
        ELSE IF p = M.place[j].p_bytes
        THEN [M EXCEPT !.place[j].is_used = FALSE,
                       !.out[i] = @ - 1,
                       !.log = Append(@, Event(M, "deallocate", i, p, n, "place"))]
        ELSE FallbackDeallocate(M, i, p, n)

\* allocator_in_place::is_in_place(), reached through placed_vector::is_in_place()
is_in_place(M, i) ==
    LET j == M.vec[i].m_place
    IN  IF j = 0 THEN FALSE ELSE M.place[j].is_used

size_in_place == N

------------------------------------------------------------------------------
(* std::vector<T, allocator_in_place<T, A>>, the base class.               *)

Read(M, a, k) ==
    IF a \in DOMAIN M.mem /\ k \in 1..Len(M.mem[a]) THEN M.mem[a][k] ELSE Junk

Write(M, a, k, v) ==
    IF a \in DOMAIN M.mem /\ k \in 1..Len(M.mem[a])
    THEN [M EXCEPT !.mem[a][k] = v]
    ELSE M

\* construct dst[1..cnt] from src[1..cnt]
CopyElems(M, src, dst, cnt) ==
    IF dst \in DOMAIN M.mem
    THEN [M EXCEPT !.mem[dst] = [k \in 1..Len(@) |->
                                    IF k <= cnt THEN Read(M, src, k) ELSE @[k]]]
    ELSE M

\* destroy a[from..to]
DestroyRange(M, a, from, to) ==
    IF a \in DOMAIN M.mem
    THEN [M EXCEPT !.mem[a] = [k \in 1..Len(@) |->
                                  IF k >= from /\ k <= to THEN Junk ELSE @[k]]]
    ELSE M

\* The elements of the vector, read through its data pointer.
ElemsOf(M, i) == [k \in 1..M.vec[i].size |-> Read(M, M.vec[i].data, k)]

\* A reallocation that releases the old block before it asks for the new one.
Reallocate_releases_first(M, i, newcap) ==
    LET v == M.vec[i]
        F == IF v.data = NullPtr THEN M ELSE deallocate(M, i, v.data, v.cap)
        A == allocate(F, i, newcap)
        C == CopyElems(A, v.data, A.ret, v.size)
    IN  IF A.thrown
        THEN [A EXCEPT !.vec[i].data = NullPtr, !.vec[i].size = 0, !.vec[i].cap = 0]
        ELSE [C EXCEPT !.vec[i].data = A.ret, !.vec[i].cap = newcap]

\* Reallocation to capacity newcap: allocate the new block, construct the
\* elements in it, destroy the old ones, release the old block.  When the
\* allocation throws nothing has been touched yet.
Reallocate(M, i, newcap) ==
    LET v == M.vec[i]
        A == allocate(M, i, newcap)
        C == CopyElems(A, v.data, A.ret, v.size)
        D == DestroyRange(C, v.data, 1, v.size)
        F == IF v.data = NullPtr THEN D ELSE deallocate(D, i, v.data, v.cap)
    IN  IF A.thrown
        THEN A
        ELSE [F EXCEPT !.vec[i].data = A.ret, !.vec[i].cap = newcap]

\* Capacity chosen by push_back on a full vector (size = cap).
Growth(lib, size, cap) ==
    IF lib = "msvc"
    THEN LET g == cap + (cap \div 2) IN IF g < size + 1 THEN size + 1 ELSE g
    ELSE IF size = 0 THEN 1 ELSE 2 * size

reserve(M, i, n) ==
    IF n > M.vec[i].cap THEN Reallocate(M, i, n) ELSE M

push_back(M, i, x) ==
    LET v == M.vec[i]
        R == IF v.size = v.cap THEN Reallocate(M, i, Growth(stdlib, v.size, v.cap)) ELSE M
        W == Write(R, R.vec[i].data, v.size + 1, x)
    IN  IF R.thrown
        THEN R
        ELSE [W EXCEPT !.vec[i].size = v.size + 1]

pop_back(M, i) ==
    LET v == M.vec[i]
        D == DestroyRange(M, v.data, v.size, v.size)
    IN  [D EXCEPT !.vec[i].size = v.size - 1]

clear(M, i) ==
    LET v == M.vec[i]
        D == DestroyRange(M, v.data, 1, v.size)
    IN  [D EXCEPT !.vec[i].size = 0]

\* Releases the block of an empty vector, leaving capacity 0.
Tidy(M, i) ==
    LET v == M.vec[i]
        D == DestroyRange(M, v.data, 1, v.size)
        F == IF v.data = NullPtr THEN D ELSE deallocate(D, i, v.data, v.cap)
    IN  [F EXCEPT !.vec[i].data = NullPtr, !.vec[i].size = 0, !.vec[i].cap = 0]

\* shrink_to_fit(): MSVC reallocates to exactly size() and lets a
\* std::bad_alloc out; libstdc++ builds the smaller vector inside a try block
\* and on any exception returns with the vector as it was.
shrink_to_fit(M, i) ==
    LET v == M.vec[i]
        R == Reallocate(M, i, v.size)
    IN  IF v.size = v.cap THEN M
        ELSE IF v.size = 0 THEN Tidy(M, i)
        ELSE IF R.thrown /\ stdlib # "msvc" THEN [M EXCEPT !.log = R.log]
        ELSE R

\* x[k] = v for an index k below size()
assign_at(M, i, k, x) == Write(M, M.vec[i].data, k, x)

\* vector(const vector& other, const allocator_type& alloc): a block of exactly
\* other.size() elements from the new allocator (none for an empty source)
CopiedVector(M, i, j) ==
    LET s == M.vec[j].size
        B == [M EXCEPT !.vec[i] = EmptyVector(i), !.out[i] = 0]
        A == IF s = 0 THEN [B EXCEPT !.ret = NullPtr] ELSE allocate(B, i, s)
        C == CopyElems(A, M.vec[j].data, A.ret, s)
    IN  [C EXCEPT !.vec[i].data = A.ret, !.vec[i].size = s, !.vec[i].cap = s]

\* vector::operator=(const vector& other); the allocator is not propagated.
\* When other.size() exceeds the capacity, libstdc++ allocates exactly
\* other.size(), copies, then releases the old block; MSVC releases the old
\* block first and then allocates a geometrically grown capacity.
AssignedVector(M, i, j) ==
    LET s == M.vec[j].size
        v == M.vec[i]
        src == M.vec[j].data
    IN  IF s <= v.cap
        THEN LET C == CopyElems(M, src, v.data, s)
                 D == DestroyRange(C, v.data, s + 1, v.size)
             IN  [D EXCEPT !.vec[i].size = s]
        ELSE IF stdlib = "msvc"
        THEN LET g == v.cap + (v.cap \div 2)
                 newcap == IF g < s THEN s ELSE g
                 T == Tidy(M, i)
                 A == allocate(T, i, newcap)
                 C == CopyElems(A, src, A.ret, s)
             IN  [C EXCEPT !.vec[i].data = A.ret, !.vec[i].size = s, !.vec[i].cap = newcap]
        ELSE LET A == allocate(M, i, s)
                 C == CopyElems(A, src, A.ret, s)
                 D == DestroyRange(C, v.data, 1, v.size)
                 F == IF v.data = NullPtr THEN D ELSE deallocate(D, i, v.data, v.cap)
             IN  [F EXCEPT !.vec[i].data = A.ret, !.vec[i].size = s, !.vec[i].cap = s]

------------------------------------------------------------------------------
(* placed_vector                                                           *)

\* The constructor without its reserve(N).
DefaultConstructed_no_reserve(M, i) ==
    LET B == [M EXCEPT !.vec[i] = EmptyVector(i), !.out[i] = 0]
    IN  [B EXCEPT !.place[i] = managed_place(i), !.built = @ \cup {i}]

\* placed_vector(const A& alloc = A()): the base class, then m_place, then the body
DefaultConstructed(M, i) ==
    LET B == [M EXCEPT !.vec[i] = EmptyVector(i), !.out[i] = 0]
        P == [B EXCEPT !.place[i] = managed_place(i), !.built = @ \cup {i}]
    IN  reserve(P, i, N)

\* placed_vector(const placed_vector& other): the base class is constructed
\* first, from other and an allocator bound to &m_place, so its allocate reads
\* the descriptor while it still holds whatever the storage held; m_place is
\* constructed after it.
CopyConstructed(M, i, j) ==
    LET B == CopiedVector(M, i, j)
    IN  [B EXCEPT !.place[i] = managed_place(i), !.built = @ \cup {i}]

\* The implicitly defined placed_vector::operator=(const placed_vector&): the
\* base class is assigned, then m_place member by member (the four fields of
\* place_manager, then the bytes of the buffer).
CopyAssigned(M, i, j) ==
    LET B == AssignedVector(M, i, j)
    IN  [B EXCEPT !.place[i] = B.place[j],
                  !.mem[InlineAddr(i)] = B.mem[InlineAddr(j)]]

\* The state of instance i after a step of put_in_place, and the number of
\* allocator calls made so far.
Step(M, i, name) ==
    [M EXCEPT !.steps = Append(@, [step |-> name,
                                   data |-> M.vec[i].data,
                                   size |-> M.vec[i].size,
                                   cap |-> M.vec[i].cap,
                                   is_used |-> M.place[i].is_used,
                                   is_enabled |-> M.place[i].is_enabled,
                                   calls |-> Len(M.log)])]

\* put_in_place that disables the descriptor whatever the size is.
put_in_place_always_disables(M, i) ==
    IF is_in_place(M, i) /\ M.vec[i].cap = N
    THEN [M EXCEPT !.ret = TRUE]
    ELSE IF M.vec[i].size > N
    THEN [M EXCEPT !.ret = FALSE]
    ELSE LET R1 == Step(reserve(M, i, N + 1), i, "reserve_more")
             D  == [R1 EXCEPT !.place[i].is_enabled = FALSE]
             S  == Step(shrink_to_fit(D, i), i, "shrink")
             E  == [S EXCEPT !.place[i].is_enabled = TRUE]
             R2 == Step(reserve(E, i, N), i, "reserve_n")
         IN  IF R1.thrown THEN R1
             ELSE IF S.thrown THEN S
             ELSE IF R2.thrown THEN R2
             ELSE [R2 EXCEPT !.ret = is_in_place(R2, i)]

\* put_in_place that never disables the descriptor before shrinking.
put_in_place_no_disable(M, i) ==
    IF is_in_place(M, i) /\ M.vec[i].cap = N
    THEN [M EXCEPT !.ret = TRUE]
    ELSE IF M.vec[i].size > N
    THEN [M EXCEPT !.ret = FALSE]
    ELSE LET R1 == Step(reserve(M, i, N + 1), i, "reserve_more")
             S  == Step(shrink_to_fit(R1, i), i, "shrink")
             E  == [S EXCEPT !.place[i].is_enabled = TRUE]
             R2 == Step(reserve(E, i, N), i, "reserve_n")
         IN  IF R1.thrown THEN R1
             ELSE IF S.thrown THEN S
             ELSE IF R2.thrown THEN R2
             ELSE [R2 EXCEPT !.ret = is_in_place(R2, i)]

\* put_in_place whose size guard is off by one: N + 1 elements pass it.
put_in_place_late_guard(M, i) ==
    IF is_in_place(M, i) /\ M.vec[i].cap = N
    THEN [M EXCEPT !.ret = TRUE]
    ELSE IF M.vec[i].size > N + 1
    THEN [M EXCEPT !.ret = FALSE]
    ELSE LET R1 == Step(reserve(M, i, N + 1), i, "reserve_more")
             D  == IF R1.vec[i].size # N
                   THEN [R1 EXCEPT !.place[i].is_enabled = FALSE]
                   ELSE R1
             S  == Step(shrink_to_fit(D, i), i, "shrink")
             E  == [S EXCEPT !.place[i].is_enabled = TRUE]
             R2 == Step(reserve(E, i, N), i, "reserve_n")
         IN  IF R1.thrown THEN R1
             ELSE IF S.thrown THEN S
             ELSE IF R2.thrown THEN R2
             ELSE [R2 EXCEPT !.ret = is_in_place(R2, i)]

\* put_in_place without the early return for a Sequence already in place.
put_in_place_no_early_return(M, i) ==
    IF M.vec[i].size > N
    THEN [M EXCEPT !.ret = FALSE]
    ELSE LET R1 == Step(reserve(M, i, N + 1), i, "reserve_more")
             D  == IF R1.vec[i].size # N
                   THEN [R1 EXCEPT !.place[i].is_enabled = FALSE]
                   ELSE R1
             S  == Step(shrink_to_fit(D, i), i, "shrink")
             E  == [S EXCEPT !.place[i].is_enabled = TRUE]
             R2 == Step(reserve(E, i, N), i, "reserve_n")
         IN  IF R1.thrown THEN R1
             ELSE IF S.thrown THEN S
             ELSE IF R2.thrown THEN R2
             ELSE [R2 EXCEPT !.ret = is_in_place(R2, i)]

\* placed_vector::put_in_place(); the result is in ret
put_in_place(M, i) ==
    IF is_in_place(M, i) /\ M.vec[i].cap = N
    THEN [M EXCEPT !.ret = TRUE]
    ELSE IF M.vec[i].size > N
    THEN [M EXCEPT !.ret = FALSE]
    ELSE LET R1 == Step(reserve(M, i, N + 1), i, "reserve_more")
             D  == IF R1.vec[i].size # N
                   THEN [R1 EXCEPT !.place[i].is_enabled = FALSE]
                   ELSE R1
             S  == Step(shrink_to_fit(D, i), i, "shrink")
             E  == [S EXCEPT !.place[i].is_enabled = TRUE]
             R2 == Step(reserve(E, i, N), i, "reserve_n")
         IN  IF R1.thrown THEN R1
             ELSE IF S.thrown THEN S
             ELSE IF R2.thrown THEN R2
             ELSE [R2 EXCEPT !.ret = is_in_place(R2, i)]

\* A destructor that drops the block without releasing it.
Destroyed_leaks(M, i) ==
    [M EXCEPT !.vec[i].data = NullPtr, !.vec[i].size = 0, !.vec[i].cap = 0]

\* ~placed_vector(): m_place is trivially destroyed, then the base releases its block
Destroyed(M, i) == Tidy(M, i)

------------------------------------------------------------------------------
(* The state machine.                                                      *)

\* What the storage of an m_place may hold before its constructor has run:
\* values that make allocate refuse the inline region, and values that make it
\* hand out p_bytes, which may be any address.
Refusing == [is_used |-> TRUE, is_enabled |-> FALSE, p_bytes |-> WildPtr, size |-> 0]

Indeterminate ==
    {Refusing} \cup
    [is_used : {FALSE}, is_enabled : {TRUE},
     p_bytes : {InlineAddr(j) : j \in Inst} \cup {WildPtr}, size : {N}]

FallbackAllocates(l, i) ==
    {k \in 1..Len(l) : l[k].inst = i /\ l[k].call = "allocate" /\ l[k].by = "fallback"}

\* The history of instance i after operation op, which left machine M:
\* appends is k after exactly k appends and nothing else since a default
\* construction (-1 otherwise); fallback tells whether its allocator has asked
\* the fallback for a block since construction; overflowed is set by the append
\* that takes an in-place Sequence from N to N + 1 elements and cleared by
\* shrink_to_fit, put_in_place and an assignment; assigned tells whether the
\* instance has been the target of a copy assignment.
HistAfter(op, i, M) ==
    LET h == hist[i]
        fb == FallbackAllocates(M.log, i) # {}
        fresh == [appends |-> -1, fallback |-> fb, overflowed |-> FALSE, assigned |-> FALSE]
    IN  CASE op = "construct" -> [fresh EXCEPT !.appends = 0]
          [] op = "copy_construct" -> fresh
          [] op = "destroy" -> [fresh EXCEPT !.fallback = FALSE]
          [] op = "append" ->
                [h EXCEPT !.appends = IF @ >= 0 THEN @ + 1 ELSE -1,
                          !.fallback = @ \/ fb,
                          !.overflowed = @ \/ (vec[i].size = N /\ is_in_place(Machine, i))]
          [] op \in {"shrink_to_fit", "put_in_place"} ->
                [h EXCEPT !.appends = -1, !.fallback = @ \/ fb, !.overflowed = FALSE]
          [] op = "copy_assign" ->
                [h EXCEPT !.appends = -1, !.fallback = @ \/ fb, !.overflowed = FALSE,
                          !.assigned = TRUE]
          [] OTHER -> [h EXCEPT !.appends = -1, !.fallback = @ \/ fb]

Commit(M, op, i, src, r) ==
    /\ place' = M.place
    /\ vec' = M.vec
    /\ mem' = M.mem
    /\ live' = M.live
    /\ log' = M.log
    /\ last' = [op |-> op, inst |-> i, src |-> src, ret |-> r,
                thrown |-> M.thrown, steps |-> M.steps]
    /\ hist' = IF M.thrown THEN hist ELSE [hist EXCEPT ![i] = HistAfter(op, i, M)]
    /\ budget' = IF budget > 0 THEN budget - 1 ELSE budget
    /\ UNCHANGED <<N, stdlib>>

RawVector == [data |-> NullPtr, size |-> 0, cap |-> 0, m_place |-> 0]

\* Storage for every instance, nothing constructed yet.
RawMachine(garbage) ==
    [place |-> garbage,
     vec |-> [i \in Inst |-> RawVector],
     mem |-> [a \in {InlineAddr(i) : i \in Inst} |-> RawSlots(N)],
     live |-> {}, log |-> <<>>, ret |-> NullPtr,
     out |-> [i \in Inst |-> 0], built |-> {},
     thrown |-> FALSE, fail |-> -1, ub |-> "crash", steps |-> <<>>]

InitWith(garbage) ==
    LET M == DefaultConstructed(RawMachine(garbage), 1)
    IN  /\ life = [i \in Inst |-> IF i = 1 THEN "alive" ELSE "none"]
        /\ place = M.place
        /\ vec = M.vec
        /\ mem = M.mem
        /\ live = M.live
        /\ log = M.log
        /\ last = [op |-> "construct", inst |-> 1, src |-> 0, ret |-> FALSE,
                   thrown |-> FALSE, steps |-> <<>>]
        /\ hist = [i \in Inst |->
                     [appends |-> IF i = 1 THEN 0 ELSE -1,
                      fallback |-> i = 1 /\ FallbackAllocates(M.log, 1) # {},
                      overflowed |-> FALSE, assigned |-> FALSE]]

Init ==
    /\ N \in 1..MaxN
    /\ stdlib \in StdLibs
    /\ budget = 0
    /\ InitWith([i \in Inst |-> Refusing])

Construct(i) ==
    /\ life[i] # "alive"
    /\ life' = [life EXCEPT ![i] = "alive"]
    /\ Commit(DefaultConstructed(Machine, i), "construct", i, 0, FALSE)

AppendElem(i, x) ==
    /\ life[i] = "alive"
    /\ vec[i].size < N + MaxExtra
    /\ Commit(push_back(Machine, i, x), "append", i, 0, FALSE)
    /\ UNCHANGED life

RemoveLast(i) ==
    /\ life[i] = "alive"
    /\ vec[i].size > 0
    /\ Commit(pop_back(Machine, i), "remove_last", i, 0, FALSE)
    /\ UNCHANGED life

Clear(i) ==
    /\ life[i] = "alive"
    /\ Commit(clear(Machine, i), "clear", i, 0, FALSE)
    /\ UNCHANGED life

Reserve(i, n) ==
    /\ life[i] = "alive"
    /\ Commit(reserve(Machine, i, n), "reserve", i, 0, FALSE)
    /\ UNCHANGED life

ShrinkToFit(i) ==
    /\ life[i] = "alive"
    /\ Commit(shrink_to_fit(Machine, i), "shrink_to_fit", i, 0, FALSE)
    /\ UNCHANGED life

PutInPlace(i) ==
    /\ life[i] = "alive"
    /\ LET M == put_in_place(Machine, i)
       IN  Commit(M, "put_in_place", i, 0, IF M.thrown THEN FALSE ELSE M.ret)
    /\ UNCHANGED life

Destroy(i) ==
    /\ life[i] = "alive"
    /\ life' = [life EXCEPT ![i] = "dead"]
    /\ Commit(Destroyed(Machine, i), "destroy", i, 0, FALSE)

WriteAt(i, k, x) ==
    /\ life[i] = "alive"
    /\ k \in 1..vec[i].size
    /\ Commit(assign_at(Machine, i, k, x), "write", i, 0, FALSE)
    /\ UNCHANGED life

CopyConstruct(i, j) ==
    /\ i # j
    /\ life[i] # "alive"
    /\ life[j] = "alive"
    /\ life' = [life EXCEPT ![i] = "alive"]
    /\ Commit(CopyConstructed(Machine, i, j), "copy_construct", i, j, FALSE)

CopyAssign(i, j) ==
    /\ i # j
    /\ life[i] = "alive"
    /\ life[j] = "alive"
    /\ Commit(CopyAssigned(Machine, i, j), "copy_assign", i, j, FALSE)
    /\ UNCHANGED life

\* One instance, default-constructed, used through the public operations.
Next ==
    \/ Construct(1)
    \/ \E x \in Val : AppendElem(1, x)
    \/ RemoveLast(1)
    \/ Clear(1)
    \/ \E n \in 0..(N + MaxExtra + 1) : Reserve(1, n)
    \/ ShrinkToFit(1)
    \/ PutInPlace(1)
    \/ Destroy(1)

Spec == Init /\ [][Next]_vars

\* Two instances: the first default-constructed, the second in storage whose
\* content is indeterminate until a constructor has run; runs of MaxOps
\* operations.
InitCopy ==
    /\ N = MaxN
    /\ stdlib \in StdLibs
    /\ budget = MaxOps
    /\ \E g \in Indeterminate : InitWith([i \in Inst |-> g])

NextCopy ==
    \/ \E i \in Inst : budget > 0 /\ Construct(i)
    \/ \E i, j \in Inst : budget > 0 /\ CopyConstruct(i, j)
    \/ \E i, j \in Inst : budget > 0 /\ CopyAssign(i, j)
    \/ \E i \in Inst, x \in Val : budget > 0 /\ AppendElem(i, x)
    \/ \E i \in Inst, k \in 1..N, x \in Val : budget > 0 /\ WriteAt(i, k, x)
    \/ \E i \in Inst : budget > 0 /\ RemoveLast(i)
    \/ \E i \in Inst : budget > 0 /\ Clear(i)
    \/ \E i \in Inst, n \in 0..(N + MaxExtra + 1) : budget > 0 /\ Reserve(i, n)
    \/ \E i \in Inst : budget > 0 /\ ShrinkToFit(i)
    \/ \E i \in Inst : budget > 0 /\ PutInPlace(i)
    \/ \E i \in Inst : budget > 0 /\ Destroy(i)

SpecCopy == InitCopy /\ [][NextCopy]_vars

\* One instance whose fallback allocator may run out of memory: f is the
\* number of requests it serves during the operation before it fails one
\* with std::bad_alloc (-1: it serves them all).
Failures == {-1, 0, 1}

AppendElemOOM(i, x, f) ==
    /\ life[i] = "alive"
    /\ vec[i].size < N + MaxExtra
    /\ Commit(push_back([Machine EXCEPT !.fail = f], i, x), "append", i, 0, FALSE)
    /\ UNCHANGED life

ReserveOOM(i, n, f) ==
    /\ life[i] = "alive"
    /\ Commit(reserve([Machine EXCEPT !.fail = f], i, n), "reserve", i, 0, FALSE)
    /\ UNCHANGED life

ShrinkToFitOOM(i, f) ==
    /\ life[i] = "alive"
    /\ Commit(shrink_to_fit([Machine EXCEPT !.fail = f], i), "shrink_to_fit", i, 0, FALSE)
    /\ UNCHANGED life

PutInPlaceOOM(i, f) ==
    /\ life[i] = "alive"
    /\ LET M == put_in_place([Machine EXCEPT !.fail = f], i)
       IN  Commit(M, "put_in_place", i, 0, IF M.thrown THEN FALSE ELSE M.ret)
    /\ UNCHANGED life

NextOOM ==
    \/ \E x \in Val, f \in Failures : AppendElemOOM(1, x, f)
    \/ RemoveLast(1)
    \/ Clear(1)
    \/ \E n \in 0..(N + MaxExtra + 1), f \in Failures : ReserveOOM(1, n, f)
    \/ \E f \in Failures : ShrinkToFitOOM(1, f)
    \/ \E f \in Failures : PutInPlaceOOM(1, f)

SpecOOM == Init /\ [][NextOOM]_vars

\* The allocator driven directly, as std::vector drives it.  Allocator 1 is
\* allocator_in_place(alloc, &place) for a descriptor in any state; allocator
\* 2 has no descriptor (m_place = nullptr: the default argument of the first
\* constructor, or the converting constructor).  Both use the same fallback.
InitAlloc ==
    /\ N \in 1..MaxN
    /\ stdlib \in StdLibs
    /\ budget = 0
    /\ life = [i \in Inst |-> IF i = 1 THEN "alive" ELSE "none"]
    /\ \E used, enabled \in BOOLEAN :
           place = [i \in Inst |->
                       IF i = 1
                       THEN [managed_place(1) EXCEPT !.is_used = used, !.is_enabled = enabled]
                       ELSE Refusing]
    /\ vec = [i \in Inst |-> [RawVector EXCEPT !.m_place = IF i = 1 THEN 1 ELSE 0]]
    /\ mem = RawMachine(place).mem
    /\ live = {}
    /\ log = <<>>
    /\ last = [op |-> "construct", inst |-> 1, src |-> 0, ret |-> FALSE,
               thrown |-> FALSE, steps |-> <<>>]
    /\ hist = [i \in Inst |->
                 [appends |-> -1, fallback |-> FALSE, overflowed |-> FALSE, assigned |-> FALSE]]

\* The last call stopped the program at a read through a null m_place.
Stopped == log # <<>> /\ log[Len(log)].by = "nullderef"

\* a.allocate(n) on allocator i
CallAllocate(i, n) ==
    /\ ~Stopped
    /\ Cardinality(live) < MaxBlocks
    /\ Commit(allocate(Machine, i, n), "allocate", i, 0, FALSE)
    /\ UNCHANGED life

\* a.deallocate(p, n) on allocator i, for a block p the allocator has handed
\* out: the inline region while it is in use, or a live fallback block of n
\* elements.  u is what the build does at a read through a null m_place.
CallDeallocate(i, p, u) ==
    /\ ~Stopped
    /\ p \in DOMAIN mem
    /\ \/ p[1] = "heap"
       \/ vec[i].m_place # 0 /\ p = place[vec[i].m_place].p_bytes /\ place[vec[i].m_place].is_used
    /\ Commit(deallocate([Machine EXCEPT !.ub = u], i, p, Len(mem[p])), "deallocate", i, 0, FALSE)
    /\ UNCHANGED life

\* a.is_in_place() on allocator i; the result is in last.ret
CallIsInPlace(i) ==
    /\ ~Stopped
    /\ Commit(Machine, "is_in_place", i, 0, is_in_place(Machine, i))
    /\ UNCHANGED life

\* The owner of the descriptor sets is_enabled (put_in_place does).
SetEnabled(b) ==
    /\ ~Stopped
    /\ Commit([Machine EXCEPT !.place[1].is_enabled = b], "set_enabled", 1, 0, FALSE)
    /\ UNCHANGED life

NextAlloc ==
    \/ \E i \in Inst, n \in 1..(N + 1) : CallAllocate(i, n)
    \/ \E i \in Inst, p \in DOMAIN mem, u \in {"crash", "delegates"} : CallDeallocate(i, p, u)
    \/ \E i \in Inst : CallIsInPlace(i)
    \/ \E b \in BOOLEAN : SetEnabled(b)

SpecAlloc == InitAlloc /\ [][NextAlloc]_vars

------------------------------------------------------------------------------
(* What a caller observes of instance i in the current state.              *)

IsInPlace(i) == is_in_place(Machine, i)
Elems(i) == ElemsOf(Machine, i)
Size(i) == vec[i].size
Capacity(i) == vec[i].cap
Ran(op, i) == last.op = op /\ last.inst = i
NoAllocatorCall == log = <<>>

------------------------------------------------------------------------------
(* Properties.                                                             *)

\* C1: for every N in 1..MaxN, right after default construction the Sequence is
\* empty, is_in_place() is true, size_in_place() is N, the capacity is at least
\* N, and the construction asked the fallback allocator for nothing.
C1_FreshStartsInPlace ==
    \A i \in Inst :
        Ran("construct", i) =>
            /\ Size(i) = 0
            /\ IsInPlace(i)
            /\ size_in_place = N
            /\ Capacity(i) >= N
            /\ vec[i].data = InlineAddr(i)
            /\ FallbackAllocates(log, i) = {}
            /\ ~hist[i].fallback

C1_Witness ==
    /\ Ran("construct", 1)
    /\ N = MaxN
    /\ Len(log) = 1
    /\ log[1].call = "allocate" /\ log[1].by = "place" /\ log[1].n = N

\* C2: put_in_place() called with at most N elements returns true, leaves the
\* Sequence in place with capacity exactly N, and leaves the elements (values
\* and order) and the size as they were before the call.
C2_PutInPlaceSucceeds ==
    [][\A i \in Inst :
          (last'.op = "put_in_place" /\ last'.inst = i /\ Size(i) <= N) =>
              /\ last'.ret = TRUE
              /\ IsInPlace(i)'
              /\ Capacity(i)' = N
              /\ Elems(i)' = Elems(i)
              /\ Size(i)' = Size(i)]_vars

\* put_in_place brought fewer than N elements back from a fallback block: the
\* shrink was served by the fallback, the final reserve(N) by the inline region.
C2_Witness ==
    /\ Ran("put_in_place", 1)
    /\ last.ret = TRUE
    /\ Size(1) >= 1 /\ Size(1) < N
    /\ IsInPlace(1)
    /\ hist[1].fallback
    /\ \E k \in 1..Len(log) :
          log[k].call = "allocate" /\ log[k].by = "fallback" /\ log[k].n = Size(1)
    /\ \E k \in 1..Len(log) :
          log[k].call = "allocate" /\ log[k].by = "place" /\ log[k].n = N

\* C3: put_in_place() called with more than N elements returns false and
\* changes nothing: size, capacity, elements, the active block and both
\* descriptor flags stay as they were, and no allocator call is made.
C3_PutInPlaceRefusesUnchanged ==
    [][\A i \in Inst :
          (last'.op = "put_in_place" /\ last'.inst = i /\ Size(i) > N) =>
              /\ last'.ret = FALSE
              /\ vec' = vec
              /\ place' = place
              /\ mem' = mem
              /\ live' = live
              /\ Elems(i)' = Elems(i)
              /\ NoAllocatorCall']_vars

\* put_in_place refused a Sequence holding more than N elements, with spare
\* capacity a shrink would have released.
C3_Witness ==
    /\ Ran("put_in_place", 1)
    /\ last.ret = FALSE
    /\ Size(1) = N + 1
    /\ Capacity(1) > Size(1)

\* C4: after k appends to a default-constructed Sequence, 1 <= k <= N, and
\* nothing else, is_in_place() is true, the size is k, and the fallback
\* allocator has not been asked for a block since construction.
C4_AppendsUpToNStayInPlace ==
    \A i \in Inst :
        (life[i] = "alive" /\ hist[i].appends >= 1 /\ hist[i].appends <= N) =>
            /\ IsInPlace(i)
            /\ Size(i) = hist[i].appends
            /\ ~hist[i].fallback
            /\ vec[i].data = InlineAddr(i)

C4_Witness ==
    /\ N = MaxN
    /\ hist[1].appends = N
    /\ Ran("append", 1)
    /\ Size(1) = N

\* C5: the append that takes an in-place Sequence from N to N + 1 elements makes
\* is_in_place() false, and it stays false through every later append, reserve,
\* remove-last and clear, until shrink_to_fit or put_in_place is called.
C5_OverflowStaysOffPlace ==
    \A i \in Inst :
        (life[i] = "alive" /\ hist[i].overflowed) =>
            /\ ~IsInPlace(i)
            /\ vec[i].data # InlineAddr(i)
            /\ Capacity(i) > N

\* A reserve grew the capacity after the overflow, with the count back under N.
C5_Witness ==
    /\ hist[1].overflowed
    /\ Ran("reserve", 1)
    /\ log # <<>>
    /\ Size(1) < N

\* The calls of the log made by the allocator of instance i.
CallsOf(l, i) == SelectSeq(l, LAMBDA e : e.inst = i)

\* C7: a Sequence holds at most one live block at any time: its allocator
\* never receives an allocate while a block it handed out is unreleased.
C7_NeverAllocatesWhileHolding ==
    \A k \in 1..Len(log) : log[k].call = "allocate" => log[k].held = 0

\* C7, amended: a Sequence holds at most one live block after every completed
\* operation and at most two during one: a reallocation asks for the new block
\* while the old one is still live and releases the old one right after, and
\* the two are different blocks (the inline region is never handed out twice).
C7_AtMostTwoNewBeforeOld ==
    \A i \in Inst :
        LET c == CallsOf(log, i)
        IN  /\ \A k \in 1..Len(c) :
                  /\ c[k].call = "allocate" => c[k].held \in {0, 1}
                  /\ c[k].call = "deallocate" => c[k].held \in {1, 2}
                  /\ (c[k].call = "allocate" /\ c[k].held = 1) =>
                        /\ k < Len(c)
                        /\ c[k + 1].call = "deallocate"
                        /\ c[k + 1].p # c[k].p
            /\ c # <<>> =>
                  LET e == c[Len(c)]
                      after == IF e.call = "allocate" THEN e.held + 1 ELSE e.held - 1
                  IN  after = IF vec[i].data = NullPtr THEN 0 ELSE 1

\* put_in_place moved a Sequence from the inline region (capacity below N) to
\* the fallback and back: both were live together twice.
C7_Witness ==
    /\ Ran("put_in_place", 1)
    /\ last.ret = TRUE
    /\ \E k \in 1..Len(log) :
          /\ log[k].call = "allocate" /\ log[k].by = "fallback" /\ log[k].held = 1
          /\ log[k + 1].call = "deallocate" /\ log[k + 1].by = "place"
    /\ \E k \in 1..Len(log) :
          /\ log[k].call = "allocate" /\ log[k].by = "place" /\ log[k].held = 1
          /\ log[k + 1].call = "deallocate" /\ log[k + 1].by = "fallback"

\* The blocks instance i holds after the calls l[k..], holding `held` before
\* them; ok is false when a block is handed out that is already held, or a
\* block comes back that is not held or that the fallback never allocated.
RECURSIVE Replay(_, _, _)
Replay(l, k, held) ==
    IF k > Len(l) THEN [ok |-> TRUE, held |-> held]
    ELSE IF l[k].call = "allocate"
    THEN IF l[k].p \in held
         THEN [ok |-> FALSE, held |-> held]
         ELSE Replay(l, k + 1, held \cup {l[k].p})
    ELSE IF l[k].p \notin held \/ l[k].by = "bad"
         THEN [ok |-> FALSE, held |-> held]
         ELSE Replay(l, k + 1, held \ {l[k].p})

HeldBlock(v) == {v.data} \ {NullPtr}

\* C8: over construct, append, remove-last, clear, reserve, shrink_to_fit,
\* put_in_place and destroy, every block an allocator hands out is released
\* exactly once: each operation releases only blocks the Sequence holds, is
\* never handed a block it already holds, and ends holding exactly its data
\* block; is_used tells whether that block is the inline region; the fallback's
\* live blocks are exactly the data blocks on the fallback; after destruction
\* the Sequence holds nothing and is_used is false.
C8_AllocateReleasePaired ==
    [][\A i \in Inst :
          (life[i] = "alive" \/ life'[i] = "alive") =>
              LET r == Replay(CallsOf(log', i), 1, HeldBlock(vec[i]))
              IN  /\ r.ok
                  /\ r.held = HeldBlock(vec'[i])
                  /\ place'[i].is_used <=> (InlineAddr(i) \in r.held)
                  /\ live' = {vec'[j].data[2] : j \in {x \in Inst : vec'[x].data[1] = "heap"}}
                  /\ life'[i] = "dead" => (r.held = {} /\ ~place'[i].is_used)]_vars

\* A Sequence on the fallback was destroyed and its block released.
C8_Witness ==
    /\ Ran("destroy", 1)
    /\ life[1] = "dead"
    /\ Len(log) = 1
    /\ log[1].call = "deallocate" /\ log[1].by = "fallback" /\ log[1].n > N
    /\ live = {}

\* C6: after every completed default construction, copy construction, append,
\* remove-last, clear, reserve, shrink_to_fit and put_in_place, is_used (and so
\* is_in_place()) is true exactly when the active block of the Sequence is its
\* own inline buffer.
C6_UsedIffBlockIsInline ==
    \A i \in Inst :
        (life[i] = "alive" /\ ~hist[i].assigned) =>
            /\ place[i].is_used <=> (vec[i].data = InlineAddr(i))
            /\ IsInPlace(i) <=> (vec[i].data = InlineAddr(i))

\* C9: the copy of a Sequence that is in place is itself in place, in its own
\* inline buffer, with the elements of the source; and afterwards an append,
\* remove-last, indexed write, clear or put_in_place on one of the two leaves
\* the elements, size and descriptor flags of the other unchanged.
C9_CopyIsInPlace ==
    \A i, j \in Inst :
        (Ran("copy_construct", i) /\ last.src = j /\ IsInPlace(j)) =>
            /\ IsInPlace(i)
            /\ vec[i].data = InlineAddr(i)
            /\ InlineAddr(i) # InlineAddr(j)
            /\ Elems(i) = Elems(j)

\* C9, second part, as a condition on every step.
C9_MutationsAreIndependent ==
    \A a, b \in Inst :
        (/\ a # b
         /\ life[a] = "alive" /\ life[b] = "alive"
         /\ ~hist[a].assigned /\ ~hist[b].assigned
         /\ last'.inst = a
         /\ last'.op \in {"append", "remove_last", "write", "clear", "put_in_place"}) =>
            /\ Elems(b)' = Elems(b)
            /\ Size(b)' = Size(b)
            /\ place'[b].is_used = place[b].is_used
            /\ place'[b].is_enabled = place[b].is_enabled

\* C9, both parts: the copy of an in-place Sequence is in place in its own
\* buffer with equal elements, and later mutations of one never show in the other.
C9_CopyIsIndependentlyInPlace ==
    []C9_CopyIsInPlace /\ [][C9_MutationsAreIndependent]_vars

\* C10: for every instance, after default construction, copy construction,
\* copy assignment and element operations, p_bytes is the address of the
\* instance's own inline buffer and its allocator references its own
\* descriptor; the descriptor is constructed before the allocator serves the
\* first allocate; no allocator hands out or releases the inline buffer of
\* another instance.
C10_DescriptorRefersToOwnBuffer ==
    /\ \A i \in Inst :
          life[i] = "alive" =>
              /\ place[i].p_bytes = InlineAddr(i)
              /\ vec[i].m_place = i
    /\ \A k \in 1..Len(log) :
          /\ log[k].ready
          /\ log[k].p[1] = "inline" => log[k].p = InlineAddr(log[k].inst)

\* C14: put_in_place() on a Sequence that is in place with capacity exactly N
\* returns true, makes no allocator call and changes nothing; so a call made
\* directly after a call that returned true returns true and changes nothing.
C14_InPlaceCallIsNoOp ==
    [][\A i \in Inst :
          (/\ last'.op = "put_in_place" /\ last'.inst = i
           /\ \/ IsInPlace(i) /\ Capacity(i) = N
              \/ Ran("put_in_place", i) /\ last.ret = TRUE) =>
              /\ last'.ret = TRUE
              /\ vec' = vec
              /\ place' = place
              /\ mem' = mem
              /\ live' = live
              /\ Elems(i)' = Elems(i)
              /\ NoAllocatorCall']_vars

\* put_in_place returned true on a full in-place Sequence without any call.
C14_Witness ==
    /\ Ran("put_in_place", 1)
    /\ last.ret = TRUE
    /\ NoAllocatorCall
    /\ IsInPlace(1) /\ Capacity(1) = N /\ Size(1) = N

\* C16: appending to a Sequence that is in place with fewer than N elements
\* asks the fallback allocator for nothing and leaves is_in_place() true, also
\* when the capacity in place is smaller than N.
C16_AppendInPlaceStaysInPlace ==
    [][\A i \in Inst :
          (last'.op = "append" /\ last'.inst = i /\ IsInPlace(i) /\ Size(i) < N) =>
              /\ FallbackAllocates(log', i) = {}
              /\ IsInPlace(i)']_vars

\* C18: after every completed operation size <= capacity, and is_in_place()
\* implies capacity <= N: a capacity above N is on a fallback block with
\* is_used false.
C18_InPlaceCapacityAtMostN ==
    \A i \in Inst :
        life[i] = "alive" =>
            /\ Size(i) <= Capacity(i)
            /\ IsInPlace(i) => Capacity(i) <= N
            /\ Capacity(i) > N => (vec[i].data[1] = "heap" /\ ~place[i].is_used)

\* In place with a capacity below N, filled to that capacity.
C18_Witness ==
    /\ IsInPlace(1)
    /\ Capacity(1) < N
    /\ Size(1) = Capacity(1)
    /\ Ran("shrink_to_fit", 1)

\* The allocate calls among the calls K of the last operation served by `by`.
AllocatesBy(K, by) ==
    {k \in K : log[k].call = "allocate" /\ log[k].by = by}

\* C15: in every put_in_place() that passes the size guard, (i) after the
\* reserve(N + 1) step the block is a fallback block of capacity at least
\* N + 1 and is_used is false; (ii) the inline region is never acquired for a
\* request below N: with fewer than N elements the shrink step only reaches the
\* fallback, the descriptor being disabled, and the final reserve(N) acquires
\* the inline region; with exactly N elements the shrink step acquires it with
\* capacity N; (iii) the descriptor is disabled only from the end of the
\* reserve(N + 1) step to the end of the shrink step.
C15_PutInPlaceStepOrder ==
    \A i \in Inst :
        Ran("put_in_place", i) =>
            IF Len(last.steps) # 3
            THEN NoAllocatorCall /\ last.steps = <<>>
            ELSE LET s == last.steps
                     first == 1..s[1].calls
                     mid == (s[1].calls + 1)..s[2].calls
                     fin == (s[2].calls + 1)..s[3].calls
                 IN  /\ s[3].calls = Len(log)
                     /\ s[1].data[1] = "heap"
                     /\ s[1].cap >= N + 1
                     /\ ~s[1].is_used
                     /\ \A k \in AllocatesBy(1..Len(log), "place") : log[k].n = N
                     /\ AllocatesBy(first, "place") = {}
                     /\ IF s[1].size < N
                        THEN /\ AllocatesBy(mid, "place") = {}
                             /\ \A k \in mid : ~log[k].enabled
                             /\ s[1].size > 0 => Cardinality(AllocatesBy(mid, "fallback")) = 1
                             /\ ~s[2].is_used
                             /\ ~s[2].is_enabled
                             /\ Cardinality(AllocatesBy(fin, "place")) = 1
                        ELSE /\ Cardinality(AllocatesBy(mid, "place")) = 1
                             /\ s[2].data = InlineAddr(i)
                             /\ s[2].cap = N
                             /\ s[2].is_used
                             /\ s[2].is_enabled
                             /\ fin = {}
                     /\ s[1].is_enabled
                     /\ s[3].is_enabled
                     /\ place[i].is_enabled
                     /\ \A k \in first \cup fin : log[k].enabled

\* put_in_place on a Sequence in place with 1 <= size < N: the first step moved
\* it off the inline region, the shrink went to the fallback.
C15_Witness ==
    /\ Ran("put_in_place", 1)
    /\ Len(last.steps) = 3
    /\ last.steps[1].size >= 1
    /\ last.steps[1].size < N
    /\ \E k \in 1..last.steps[1].calls : log[k].call = "deallocate" /\ log[k].by = "place"
    /\ AllocatesBy((last.steps[1].calls + 1)..last.steps[2].calls, "fallback") # {}

\* C11: allocate(n) returns the InlineBuffer and sets is_used exactly when the
\* descriptor is enabled, is not in use and n <= N; in every other case the
\* descriptor is left as it was and the block is a fresh block of n elements
\* from the fallback allocator.
C11_AllocateRoutesByDescriptor ==
    [][(last'.op = "allocate" /\ last'.inst = 1) =>
          /\ Len(log') = 1
          /\ LET e == log'[1]
                 d == place[1]
             IN  IF d.is_enabled /\ ~d.is_used /\ e.n <= N
                 THEN /\ e.by = "place"
                      /\ e.p = InlineAddr(1)
                      /\ place' = [place EXCEPT ![1].is_used = TRUE]
                      /\ live' = live
                      /\ mem' = mem
                 ELSE /\ e.by = "fallback"
                      /\ place' = place
                      /\ e.p[1] = "heap"
                      /\ e.p[2] \notin live
                      /\ live' = live \cup {e.p[2]}
                      /\ Len(mem'[e.p]) = e.n]_vars

\* A request that fits went to the fallback only because the descriptor was
\* disabled.
C11_Witness ==
    /\ last.op = "allocate" /\ last.inst = 1
    /\ log[1].by = "fallback"
    /\ log[1].n <= N
    /\ ~log[1].enabled
    /\ ~place[1].is_used

\* C12: deallocate(p, n) routes by address only: for the InlineBuffer address
\* it clears is_used, leaves is_enabled and releases nothing to the fallback;
\* for any other address it releases that block to the fallback, once, and
\* leaves both flags.
C12_DeallocateRoutesByAddress ==
    [][(last'.op = "deallocate" /\ last'.inst = 1) =>
          /\ Len(log') = 1
          /\ LET e == log'[1]
             IN  IF e.p = InlineAddr(1)
                 THEN /\ e.by = "place"
                      /\ place' = [place EXCEPT ![1].is_used = FALSE]
                      /\ live' = live
                      /\ mem' = mem
                 ELSE /\ e.by = "fallback"
                      /\ place' = place
                      /\ e.p[2] \in live
                      /\ live' = live \ {e.p[2]}]_vars

\* The inline region came back while the descriptor was disabled and a
\* fallback block was live.
C12_Witness ==
    /\ last.op = "deallocate" /\ last.inst = 1
    /\ log[1].p = InlineAddr(1)
    /\ ~place[1].is_used
    /\ ~place[1].is_enabled
    /\ live # {}

\* C19: an allocator_in_place with no descriptor bound behaves like its
\* fallback allocator: allocate delegates, deallocate delegates without reading
\* a descriptor, is_in_place() is false.
C19_UnboundActsAsFallback ==
    [][(last'.inst = 2 /\ last'.op \in {"allocate", "deallocate", "is_in_place"}) =>
          /\ place' = place
          /\ last'.op = "allocate" =>
                /\ Len(log') = 1
                /\ log'[1].by = "fallback"
                /\ live' = live \cup {log'[1].p[2]}
                /\ log'[1].p[2] \notin live
          /\ last'.op = "deallocate" =>
                /\ Len(log') = 1
                /\ log'[1].by = "fallback"
                /\ live' = live \ {log'[1].p[2]}
          /\ last'.op = "is_in_place" => last'.ret = FALSE]_vars

\* The last operation met a std::bad_alloc from the fallback allocator.
FallbackFailed(l) == \E k \in 1..Len(l) : l[k].by = "bad_alloc"

\* C13: when the fallback allocator fails during an append or a reserve, the
\* failure reaches the caller (it is not swallowed, not retried, not served
\* from the inline region) and elements, size, capacity, block and descriptor
\* flags are what they were before the operation.
C13_FailedGrowthChangesNothing ==
    [][\A i \in Inst :
          (last'.op \in {"append", "reserve"} /\ last'.inst = i /\ FallbackFailed(log')) =>
              /\ last'.thrown
              /\ Len(log') = 1
              /\ vec' = vec
              /\ place' = place
              /\ mem' = mem
              /\ live' = live
              /\ Elems(i)' = Elems(i)]_vars

\* An append to a full in-place Sequence failed with std::bad_alloc.
C13_Witness ==
    /\ Ran("append", 1)
    /\ last.thrown
    /\ FallbackFailed(log)
    /\ IsInPlace(1)
    /\ Size(1) = N
    /\ Capacity(1) = N

\* C17: is_enabled is true whenever no put_in_place() is running: after
\* construction, after every other operation, and on every way out of
\* put_in_place, the one through a std::bad_alloc in the shrink step included.
C17_EnabledBetweenCalls ==
    \A i \in Inst : life[i] = "alive" => place[i].is_enabled

====
